---- MODULE Spec2Model ----
(***************************************************************************)
(* Review Lifecycle Store of moti-og/eval-tool: the serverless request     *)
(* handlers under src/api and src/unnamed that read and mutate the         *)
(* pending_reviews, completed_reviews and backup_reviews collections of    *)
(* one MongoDB database through a per-module cached connection.            *)
(*                                                                         *)
(* A handler invocation is a sequence of steps separated by the awaits of  *)
(* the code: the synchronous prefix (method gate, cache check, issuing the *)
(* database calls), the resolution of MongoClient.connect, the execution   *)
(* of each database call at the server (atomic per call), and the          *)
(* continuation that sends the response.  Invocations interleave at these  *)
(* points.  A database call or a connect may fail.                         *)
(***************************************************************************)
EXTENDS Integers, Sequences, FiniteSets, TLC

VARIABLES
    pending,    \* pending_reviews, in natural (insertion) order
    completed,  \* completed_reviews, in natural (insertion) order
    backup,     \* backup_reviews, in natural order
    cache,      \* per handler module: cachedClient/cachedDb (NULL or a handle)
    inv,        \* per invocation slot: the state of the running handler
    now         \* the clock read by new Date()

vars == <<pending, completed, backup, cache, inv, now>>

(***************************************************************************)
(* Bounds                                                                  *)
(***************************************************************************)
NumSlots == 2       \* invocations that can overlap
MaxItems == 2       \* documents the seed script puts in pending and backup
MaxCompleted == 2   \* inserts into completed_reviews that are explored
MaxTime == 2        \* distinct clock readings

NULL == 0           \* cachedClient = null
Slots == 1..NumSlots
ItemIds == 1..MaxItems

(***************************************************************************)
(* Documents.  A pending or backup document is the pair of its ObjectId    *)
(* (_id) and its producer-assigned id; the producer's further fields are   *)
(* opaque to every handler.  Producer ids are truthy values.               *)
(***************************************************************************)
PendingDoc(i) == [_id |-> i, id |-> i]

SeedDocs(n) == [i \in 1..n |-> PendingDoc(i)]

Ids(docs) == {docs[i].id : i \in DOMAIN docs}

(***************************************************************************)
(* Request bodies of POST /submit-review.  NoBody is a request without a   *)
(* JSON body (req.body is null/undefined).  UnknownId matches no seeded    *)
(* document.  ClientStamp is a submitted_at the client put in the body.    *)
(***************************************************************************)
NoBody == [nobody |-> TRUE]
UnknownId == MaxItems + 1
ClientStamp == 0

\* the bodies of an ordinary client: a verdict with or without review_id
PlainBodies ==
    {[review_id |-> x, acceptable |-> TRUE] : x \in ItemIds \cup {UnknownId}}
    \cup {[acceptable |-> FALSE]}

\* a verdict on the first item, or no body at all
PostBodies == {[review_id |-> 1, acceptable |-> TRUE], NoBody}

\* a verdict on the last item
RaceBodies == {[review_id |-> MaxItems, acceptable |-> TRUE]}

\* a verdict that carries the reviewed response and its own submitted_at
StampedBodies ==
    {[review_id |-> 1, acceptable |-> TRUE, response |-> "html",
      submitted_at |-> ClientStamp]}

Methods == {"GET", "POST", "OPTIONS"}

\* the delete is issued whatever the body holds
AnyBody(body) == TRUE

\* reviewData.review_id used as a condition: absent is falsy, ids are truthy
HasReviewId(body) == "review_id" \in DOMAIN body

\* reviewData.review_id as a value: undefined (no pending id) when absent
Undefined == 0
ReviewId(body) == IF "review_id" \in DOMAIN body THEN body.review_id ELSE Undefined

\* { submitted_at: new Date(), ...reviewData }: the spread comes last, so a
\* submitted_at of the body replaces the server's
CompletedDocSpreadLast(body, t, oid) ==
    LET keys == (DOMAIN body \ {"nobody"}) \cup {"submitted_at", "_id"}
    IN  [k \in keys |-> IF k = "_id" THEN oid
                        ELSE IF k \in DOMAIN body THEN body[k]
                        ELSE t]

\* { ...reviewData, submitted_at: new Date() } plus the ObjectId the driver adds
CompletedDoc(body, t, oid) ==
    LET keys == (DOMAIN body \ {"nobody"}) \cup {"submitted_at", "_id"}
    IN  [k \in keys |-> IF k = "submitted_at" THEN t
                        ELSE IF k = "_id" THEN oid
                        ELSE body[k]]

\* the filter is lost: deleteOne({}) removes the first document there is
DeleteFirst(docs, x) == IF docs = <<>> THEN docs ELSE Tail(docs)

\* deleteOne({id: x}): removes the first document in natural order whose id is x
DeleteOne(docs, x) ==
    LET hits == {i \in DOMAIN docs : docs[i].id = x}
    IN  IF hits = {} THEN docs
        ELSE LET k == CHOOSE i \in hits : \A j \in hits : i <= j
             IN  SubSeq(docs, 1, k - 1) \o SubSeq(docs, k + 1, Len(docs))

(***************************************************************************)
(* Handler modules (each file is its own module with its own cache).       *)
(***************************************************************************)
Modules ==
    {"submit", "reset", "getAll", "getOne", "getOneLegacy",
     "listSummary", "listMixed", "listAll", "listDetail"}

Idle == [pc |-> "idle"]

\* the platform runs a new invocation in the first free slot
FreeSlot(p) ==
    /\ inv[p].pc = "idle"
    /\ \A q \in Slots : q < p => inv[q].pc # "idle"

\* res.status(s).json(b) / res.json(b) / res.status(s).end()
Response(s, b) == [status |-> s, body |-> b]
NoResponse == [status |-> 0]
\* { error: error.message } and { error: 'Method not allowed' }
ErrorBody(message) == [error |-> message]
ConnectError == "connect failed"      \* MongoClient.connect rejects
CallError == "call failed"            \* a database call rejects (network, timeout)
TypeError == "Cannot read properties of null"
ProjectionError == "Cannot do exclusion on field response in inclusion projection"
NotAllowed == "Method not allowed"
EnvironmentErrors == {ConnectError, CallError}
SuccessBody == [success |-> TRUE]
EmptyBody == [empty |-> TRUE]

\* an insertOne of a Submit invocation that can still reach the server
Loading(r) ==
    /\ r.pc # "idle"
    /\ r.h = "submit"
    /\ (r.pc = "connecting" \/ r.ins = "sent")

InsertLoad == Len(completed) + Cardinality({p \in Slots : Loading(inv[p])})

(***************************************************************************)
(* Initial state: the seed script has filled pending_reviews and copied it *)
(* to backup_reviews; nothing is completed; every execution context is     *)
(* cold.                                                                   *)
(***************************************************************************)
Seeded(n) ==
    /\ pending = SeedDocs(n)
    /\ backup = SeedDocs(n)
    /\ completed = <<>>
    /\ cache = [m \in Modules |-> NULL]
    /\ inv = [p \in Slots |-> Idle]
    /\ now = 1

Init == Seeded(MaxItems)

\* a document the producer appended to pending_reviews after the backup was
\* taken
StrayDoc == PendingDoc(MaxItems + 1)

\* the collections as the seed script and the producer can leave them: the
\* backup holds the first b seeded documents (none when the script has not
\* run), pending any part of them and of what the producer appended since
Stocked(pend, back) ==
    /\ pending = pend
    /\ backup = back
    /\ completed = <<>>
    /\ cache = [m \in Modules |-> NULL]
    /\ inv = [p \in Slots |-> Idle]
    /\ now = 1

PendingStocks ==
    {SeedDocs(n) : n \in 0..MaxItems}
    \cup {<<StrayDoc>>, <<PendingDoc(MaxItems)>>, <<PendingDoc(1), StrayDoc>>}

BackupStocks == {SeedDocs(n) : n \in 0..MaxItems}

\* completed_reviews as earlier Submits left it: n verdicts, each with the
\* reviewed response, stored at n - 1 distinct past readings of the clock
\* (the two oldest at the same one)
ArchivedDoc(i, n) ==
    [_id |-> i, review_id |-> UnknownId, acceptable |-> TRUE, response |-> "html",
     submitted_at |-> (IF i = 1 THEN 2 ELSE i) - n]

Archive(n) == [i \in 1..n |-> ArchivedDoc(i, n)]

Archived(n) ==
    /\ pending = SeedDocs(MaxItems)
    /\ backup = SeedDocs(MaxItems)
    /\ completed = Archive(n)
    /\ cache = [m \in Modules |-> NULL]
    /\ inv = [p \in Slots |-> Idle]
    /\ now = 1

(***************************************************************************)
(* The handlers answer once; a slot whose handler has answered is freed by *)
(* the platform (calls of it still in flight are abandoned).               *)
(***************************************************************************)
Return(p) ==
    /\ inv[p].pc = "done"
    /\ inv' = [inv EXCEPT ![p] = Idle]
    /\ UNCHANGED <<pending, completed, backup, cache, now>>

\* connectToDatabase up to its await: the cached handle, or NULL on a miss
CachedHandle(m) == cache[m]

(***************************************************************************)
(* Submit: src/api/submit-review.js                                        *)
(***************************************************************************)
\* ins, del: the state of insertOne and deleteOne ("none" not issued, "skip"
\* replaced by Promise.resolve(), "sent", "ok", "err"); t: the value of
\* new Date(); stored: the _id of each document the invocation has inserted
SubmitRecord(pc, body, ins, del, t, resp) ==
    [pc |-> pc, h |-> "submit", method |-> "POST", body |-> body, ins |-> ins,
     del |-> del, t |-> t, stored |-> {}, resp |-> resp]

\* lines 41-54 once db is at hand: new Date() is read and both calls are
\* issued.  Without a body, reviewData.review_id throws after insertOne was
\* issued and the catch answers 500.
SubmitIssued(body, t) ==
    IF body = NoBody
    THEN SubmitRecord("done", body, "sent", "skip", t, Response(500, ErrorBody(TypeError)))
    ELSE SubmitRecord("await", body, "sent",
                      IF HasReviewId(body) THEN "sent" ELSE "skip", t, NoResponse)

SubmitIssue(p, body) ==
    inv' = [inv EXCEPT ![p] = SubmitIssued(body, now)]

\* the answer of the gate is sent without return: the handler goes on to
\* connectToDatabase
SubmitUngated(method, status, b) ==
    [SubmitRecord("connecting", NoBody, "none", "none", 0, Response(status, b))
        EXCEPT !.method = method]

\* lines 32-38: the handler has answered without reading anything but the
\* method
SubmitGated(method, status, b) ==
    [SubmitRecord("done", NoBody, "none", "none", 0, Response(status, b))
        EXCEPT !.method = method]

\* lines 25-43: the method gate, then connectToDatabase up to its await
SubmitInvoke(p, bodies) ==
    /\ FreeSlot(p)
    /\ \E method \in Methods :
         IF method = "OPTIONS"
         THEN inv' = [inv EXCEPT ![p] = SubmitGated(method, 200, EmptyBody)]
         ELSE IF method # "POST"
         THEN inv' = [inv EXCEPT ![p] = SubmitGated(method, 405, ErrorBody(NotAllowed))]
         ELSE /\ InsertLoad < MaxCompleted
              /\ \E body \in bodies :
                   IF CachedHandle("submit") # NULL
                   THEN SubmitIssue(p, body)
                   ELSE inv' = [inv EXCEPT ![p] =
                            SubmitRecord("connecting", body, "none", "none", 0, NoResponse)]
    /\ UNCHANGED <<pending, completed, backup, cache, now>>

\* lines 14-22: MongoClient.connect resolved; the handle is cached
SubmitConnected(p) ==
    /\ inv[p].pc = "connecting"
    /\ inv[p].h = "submit"
    /\ cache' = [cache EXCEPT !["submit"] = p]
    /\ SubmitIssue(p, inv[p].body)
    /\ UNCHANGED <<pending, completed, backup, now>>

\* the client is cached before the connect has settled, and stays cached
\* when it rejects
SubmitConnectFailedCached(p) ==
    /\ inv[p].pc = "connecting"
    /\ inv[p].h = "submit"
    /\ cache' = [cache EXCEPT !["submit"] = p]
    /\ inv' = [inv EXCEPT ![p].pc = "done",
                          ![p].resp = Response(500, ErrorBody(ConnectError))]
    /\ UNCHANGED <<pending, completed, backup, now>>

\* line 14 rejects: the catch of lines 58-61 answers 500
SubmitConnectFailed(p) ==
    /\ inv[p].pc = "connecting"
    /\ inv[p].h = "submit"
    /\ inv' = [inv EXCEPT ![p].pc = "done",
                          ![p].resp = Response(500, ErrorBody(ConnectError))]
    /\ UNCHANGED <<pending, completed, backup, cache, now>>

\* the verdict replaces an earlier verdict on the same review_id (an upsert
\* keyed by review_id in place of insertOne)
SubmitUpsert(p) ==
    /\ inv[p].pc # "idle"
    /\ inv[p].h = "submit"
    /\ inv[p].ins = "sent"
    /\ LET doc == CompletedDoc(inv[p].body, inv[p].t, Len(completed) + 1)
           hits == {i \in DOMAIN completed :
                       /\ "review_id" \in DOMAIN doc
                       /\ "review_id" \in DOMAIN completed[i]
                       /\ completed[i].review_id = doc.review_id}
       IN  completed' = IF hits = {} THEN Append(completed, doc)
                        ELSE [completed EXCEPT ![CHOOSE i \in hits : TRUE] = doc]
    /\ inv' = [inv EXCEPT ![p].ins = "ok", ![p].t = 0,
                          ![p].stored = @ \cup {Len(completed) + 1}]
    /\ UNCHANGED <<pending, backup, cache, now>>

\* lines 47-50 at the server
SubmitInsert(p) ==
    /\ inv[p].pc # "idle"
    /\ inv[p].h = "submit"
    /\ inv[p].ins = "sent"
    /\ completed' = Append(completed,
                          CompletedDoc(inv[p].body, inv[p].t, Len(completed) + 1))
    /\ inv' = [inv EXCEPT ![p].ins = "ok", ![p].t = 0,
                          ![p].stored = @ \cup {Len(completed) + 1}]
    /\ UNCHANGED <<pending, backup, cache, now>>

SubmitInsertFailed(p) ==
    /\ inv[p].pc # "idle"
    /\ inv[p].h = "submit"
    /\ inv[p].ins = "sent"
    /\ inv' = [inv EXCEPT ![p].ins = "err", ![p].t = 0]
    /\ UNCHANGED <<pending, completed, backup, cache, now>>

\* a delete that matches nothing rejects
DeleteOutcomeStrict(docs, x) == IF x \in Ids(docs) THEN "ok" ELSE "unmatched"

\* deleteOne resolves whether or not a document matched (deletedCount 0 or
\* 1, which the handler does not read)
DeleteOutcome(docs, x) == "ok"

\* line 52 at the server
SubmitDelete(p) ==
    /\ inv[p].pc # "idle"
    /\ inv[p].h = "submit"
    /\ inv[p].del = "sent"
    /\ pending' = DeleteOne(pending, ReviewId(inv[p].body))
    /\ inv' = [inv EXCEPT ![p].del = DeleteOutcome(pending, ReviewId(inv[p].body))]
    /\ UNCHANGED <<completed, backup, cache, now>>

SubmitDeleteFailed(p) ==
    /\ inv[p].pc # "idle"
    /\ inv[p].h = "submit"
    /\ inv[p].del = "sent"
    /\ inv' = [inv EXCEPT ![p].del = "err"]
    /\ UNCHANGED <<pending, completed, backup, cache, now>>

\* Promise.allSettled in place of Promise.all: fulfilled once both calls
\* have settled, either way
AllSettled(r) == r.ins \notin {"none", "sent"} /\ r.del \notin {"none", "sent"}

\* the delete is not awaited: fulfilled as soon as the insert is
InsertFulfilled(r) == r.ins = "ok"

\* Promise.all of lines 46-54: fulfilled when both calls are, rejected as
\* soon as one is
Rejected(status) == status \notin {"none", "skip", "sent", "ok"}
AllFulfilled(r) == r.ins = "ok" /\ r.del \in {"ok", "skip"}
AnyRejected(r) == Rejected(r.ins) \/ Rejected(r.del)

\* the promise of insertOne is handed to Promise.all, whose rejection the
\* catch handles, once the array of lines 46-54 is built; on a null body
\* reviewData.review_id throws before that, after insertOne was called
Awaited(r) == r.body # NoBody

\* lines 56-61
SubmitRespond(p) ==
    /\ inv[p].pc = "await"
    /\ inv[p].h = "submit"
    /\ \/ /\ AllFulfilled(inv[p])
          /\ inv' = [inv EXCEPT ![p].pc = "done", ![p].resp = Response(200, SuccessBody)]
       \/ /\ AnyRejected(inv[p])
          /\ inv' = [inv EXCEPT ![p].pc = "done",
                                ![p].resp = Response(500, ErrorBody(CallError))]
    /\ UNCHANGED <<pending, completed, backup, cache, now>>

SubmitNext(p, bodies) ==
    \/ SubmitInvoke(p, bodies)
    \/ SubmitConnected(p)
    \/ SubmitConnectFailed(p)
    \/ SubmitInsert(p)
    \/ SubmitInsertFailed(p)
    \/ SubmitDelete(p)
    \/ SubmitDeleteFailed(p)
    \/ SubmitRespond(p)

(***************************************************************************)
(* The GET handlers.  None of them has a method gate.  Each holds its own  *)
(* copy of connectToDatabase and its own cache.                            *)
(*   getAll        src/unnamed/part_000          Fetch-All                 *)
(*   getOne        src/unnamed/part_001          Fetch-One                 *)
(*   getOneLegacy  src/api/get-reviews.js        Fetch-One, older variant  *)
(*   listSummary   src/unnamed/part_002:1-67     List-Completed, summary   *)
(*   listMixed     src/unnamed/part_002:70-134   List-Completed, summary   *)
(*   listAll       src/unnamed/part_002:137-178  List-Completed, older     *)
(*   listDetail    src/unnamed/part_002:181-235  List-Completed, detail    *)
(***************************************************************************)
FetchModules == {"getAll", "getOne", "getOneLegacy"}
ListModules == {"listSummary", "listMixed", "listAll", "listDetail"}
ReadModules == FetchModules \cup ListModules

FetchLimit == 100     \* get-reviews.js: find({}).limit(100)
ListLimit == 100      \* part_002: .limit(100)
ListAllLimit == 500   \* part_002: .limit(500)

Min(a, b) == IF a < b THEN a ELSE b

\* cursor.limit(n).toArray()
Limit(docs, n) == SubSeq(docs, 1, Min(n, Len(docs)))

\* collection.find({}).toArray()
FindAll(docs) == docs

\* collection.findOne({}): null (the empty sequence) or the first document
FindOne(docs) == IF docs = <<>> THEN <<>> ELSE <<Head(docs)>>

\* collection.countDocuments()
CountDocuments(docs) == Len(docs)

\* the state of a GET handler once connectToDatabase has returned: its
\* database calls are issued.  Fetch-One (part_001:39-42) issues two.
Unsettled == -1
ReadStarted(h) ==
    IF h = "getOne"
    THEN [pc |-> "query", h |-> h, resp |-> NoResponse,
          count |-> Unsettled, first |-> <<>>, found |-> FALSE]
    ELSE [pc |-> "query", h |-> h, resp |-> NoResponse]

\* the handler up to its first await: connectToDatabase returns the cached
\* handle, or awaits MongoClient.connect
ReadInvoke(p, h) ==
    /\ FreeSlot(p)
    /\ inv' = [inv EXCEPT ![p] =
           IF CachedHandle(h) # NULL
           THEN ReadStarted(h)
           ELSE [pc |-> "connecting", h |-> h, resp |-> NoResponse]]
    /\ UNCHANGED <<pending, completed, backup, cache, now>>

\* MongoClient.connect resolved: the handle is cached and the calls are issued
ReadConnected(p, h) ==
    /\ inv[p].pc = "connecting"
    /\ inv[p].h = h
    /\ cache' = [cache EXCEPT ![h] = p]
    /\ inv' = [inv EXCEPT ![p] = ReadStarted(h)]
    /\ UNCHANGED <<pending, completed, backup, now>>

Answered(p, h, resp) ==
    /\ inv' = [inv EXCEPT ![p] = [pc |-> "done", h |-> h, resp |-> resp]]
    /\ UNCHANGED <<pending, completed, backup, cache, now>>

\* the connect or a database call rejects: the catch answers 500
ReadFailed(p, h) ==
    /\ inv[p].pc \in {"connecting", "query"}
    /\ inv[p].h = h
    /\ Answered(p, h, Response(500, ErrorBody(
           IF inv[p].pc = "connecting" THEN ConnectError ELSE CallError)))

(***************************************************************************)
(* Fetch-All: src/unnamed/part_000                                         *)
(***************************************************************************)
\* lines 42-50
FetchAllAnswer(reviews) ==
    IF Len(reviews) = 0
    THEN Response(200, [error |-> "No reviews available"])
    ELSE Response(200, [reviews |-> reviews, total |-> Len(reviews)])

\* the find is capped like the one of get-reviews.js
FetchAllQueryLimited(docs) == Limit(FindAll(docs), FetchLimit)

\* line 40
FetchAllQuery(docs) == FindAll(docs)

\* an empty pending is refilled from the backup before the handler answers
FetchAllReseed(p) ==
    /\ inv[p].pc = "query"
    /\ inv[p].h = "getAll"
    /\ inv' = [inv EXCEPT ![p] = [pc |-> "done", h |-> "getAll",
                                  resp |-> FetchAllAnswer(FetchAllQuery(pending))]]
    /\ pending' = IF pending = <<>> THEN backup ELSE pending
    /\ UNCHANGED <<completed, backup, cache, now>>

\* the find of line 40 at the server, and the continuation of lines 42-50
FetchAllFind(p) ==
    /\ inv[p].pc = "query"
    /\ inv[p].h = "getAll"
    /\ Answered(p, "getAll", FetchAllAnswer(FetchAllQuery(pending)))

(***************************************************************************)
(* Fetch-One: src/unnamed/part_001                                         *)
(***************************************************************************)
\* countDocuments of line 40 at the server
FetchOneCount(p) ==
    /\ inv[p].pc = "query"
    /\ inv[p].h = "getOne"
    /\ inv[p].count = Unsettled
    /\ inv' = [inv EXCEPT ![p].count = CountDocuments(pending)]
    /\ UNCHANGED <<pending, completed, backup, cache, now>>

\* findOneAndDelete in place of findOne: the item is leased to the reviewer
FetchOneFindAndDelete(p) ==
    /\ inv[p].pc = "query"
    /\ inv[p].h = "getOne"
    /\ ~inv[p].found
    /\ inv' = [inv EXCEPT ![p].first = FindOne(pending), ![p].found = TRUE]
    /\ pending' = IF pending = <<>> THEN pending ELSE Tail(pending)
    /\ UNCHANGED <<completed, backup, cache, now>>

\* findOne of line 41 at the server
FetchOneFindOne(p) ==
    /\ inv[p].pc = "query"
    /\ inv[p].h = "getOne"
    /\ ~inv[p].found
    /\ inv' = [inv EXCEPT ![p].first = FindOne(pending), ![p].found = TRUE]
    /\ UNCHANGED <<pending, completed, backup, cache, now>>

\* an empty collection is answered as a failure: 404 with an error
FetchOneAnswerNotFound(count, first) ==
    IF first = <<>>
    THEN Response(404, [error |-> "Not found"])
    ELSE Response(200, [review |-> first[1], remaining |-> count, total |-> count])

\* lines 44-52
FetchOneAnswer(count, first) ==
    IF first = <<>>
    THEN Response(200, [error |-> "No reviews available"])
    ELSE Response(200, [review |-> first[1], remaining |-> count, total |-> count])

\* Promise.all of lines 39-42 fulfilled
FetchOneRespond(p) ==
    /\ inv[p].pc = "query"
    /\ inv[p].h = "getOne"
    /\ inv[p].count # Unsettled
    /\ inv[p].found
    /\ Answered(p, "getOne", FetchOneAnswer(inv[p].count, inv[p].first))

(***************************************************************************)
(* Fetch-One, older variant: src/api/get-reviews.js                        *)
(***************************************************************************)
\* limit(1): only the document that is shown is read
FetchOneLegacyQueryFirst(docs) == Limit(FindAll(docs), 1)

\* line 30
FetchOneLegacyQuery(docs) == Limit(FindAll(docs), FetchLimit)

\* lines 32-41
FetchOneLegacyAnswer(reviews) ==
    IF Len(reviews) = 0
    THEN Response(200, [error |-> "No reviews available"])
    ELSE Response(200, [review |-> reviews[1], remaining |-> Len(reviews),
                        total |-> Len(reviews)])

FetchOneLegacyFind(p) ==
    /\ inv[p].pc = "query"
    /\ inv[p].h = "getOneLegacy"
    /\ Answered(p, "getOneLegacy", FetchOneLegacyAnswer(FetchOneLegacyQuery(pending)))

(***************************************************************************)
(* List-Completed: src/unnamed/part_002 (four variants)                    *)
(***************************************************************************)
\* the fields the summary projection of lines 38-51 includes
SummaryFields ==
    {"_id", "review_id", "prompt", "acceptable", "reviewer", "notes", "timestamp",
     "submitted_at", "organization_name", "agency_user", "user_id"}

Project(doc, fields) == [k \in (DOMAIN doc) \cap fields |-> doc[k]]

ProjectAll(docs, fields) == [i \in DOMAIN docs |-> Project(docs[i], fields)]

\* sort({submitted_at: -1}): the server returns the documents in some order
\* that does not increase in submitted_at; documents with equal keys come
\* in any order.  Tied: the documents that share their key with another;
\* Priorities: the orders the server may give them
Tied(docs) ==
    {i \in DOMAIN docs :
        \E j \in DOMAIN docs : j # i /\ docs[j].submitted_at = docs[i].submitted_at}

Priorities(S) ==
    {pr \in [S -> 1..Cardinality(S)] : \A a, b \in S : a # b => pr[a] # pr[b]}

\* the sort is ascending: sort({submitted_at: 1})
BeforeAscending(docs, pr, j, i) ==
    \/ docs[j].submitted_at < docs[i].submitted_at
    \/ /\ docs[j].submitted_at = docs[i].submitted_at
       /\ j # i
       /\ pr[j] < pr[i]

\* document j comes before document i
Before(docs, pr, j, i) ==
    \/ docs[j].submitted_at > docs[i].submitted_at
    \/ /\ docs[j].submitted_at = docs[i].submitted_at
       /\ j # i
       /\ pr[j] < pr[i]

\* the documents, each at the place that the number of documents before it
\* gives it
SortedBy(docs, pr) ==
    LET place == {<<i, 1 + Cardinality({j \in DOMAIN docs : Before(docs, pr, j, i)})>> :
                     i \in DOMAIN docs}
    IN  [k \in DOMAIN docs |-> docs[(CHOOSE e \in place : e[2] = k)[1]]]

SortedDescending(docs) == {SortedBy(docs, pr) : pr \in Priorities(Tied(docs))}

\* lines 57-61, 124-128, 168-172, 225-229
ListAnswer(reviews) ==
    IF Len(reviews) = 0
    THEN Response(200, [error |-> "No reviews yet"])
    ELSE Response(200, [reviews |-> reviews])

\* the results the query of each variant can have
ListQuery(h, docs) ==
    IF h = "listSummary"
    THEN {ProjectAll(Limit(s, ListLimit), SummaryFields) : s \in SortedDescending(docs)}
    ELSE IF h = "listAll"
    THEN {Limit(s, ListAllLimit) : s \in SortedDescending(docs)}
    ELSE IF h = "listDetail"
    THEN {Limit(s, ListLimit) : s \in SortedDescending(docs)}
    ELSE {}  \* listMixed: the server rejects the projection

\* the find at the server and the continuation that answers
ListFind(p, h) ==
    /\ inv[p].pc = "query"
    /\ inv[p].h = h
    /\ \E reviews \in ListQuery(h, completed) : Answered(p, h, ListAnswer(reviews))

\* part_002:105-119: the projection includes fields and excludes response;
\* the server rejects a projection that mixes the two, whatever the
\* collection holds, and the catch of lines 130-133 answers 500
ListMixedRejected(p) ==
    /\ inv[p].pc = "query"
    /\ inv[p].h = "listMixed"
    /\ Answered(p, "listMixed", Response(500, ErrorBody(ProjectionError)))

(***************************************************************************)
(* Reset: src/api/config.js:24-94.  The three database calls are awaited   *)
(* one after the other.                                                    *)
(***************************************************************************)
NoBackup == "No backup found. Run seed_mongodb.py first to create backup."
DuplicateKey == "E11000 duplicate key error"

\* lines 84-88: { success: true, count: backups.length, message } where the
\* message is a rendering of the count
ResetSuccess(n) == [success |-> TRUE, count |-> n]

\* backups: the result of the find of line 70 once it has resolved
\* deleted: the deletedCount deleteMany resolved with, which the handler does
\* not read; n: the documents of backups that insertMany has stored so far
ResetRecord(pc, backups, resp) ==
    [pc |-> pc, h |-> "reset", method |-> "POST", backups |-> backups,
     deleted |-> 0, n |-> 0, resp |-> resp]

\* lines 58-64: the handler has answered without reading anything but the
\* method
ResetGated(method, status, b) ==
    [ResetRecord("done", <<>>, Response(status, b)) EXCEPT !.method = method]

\* lines 51-70: the method gate, then connectToDatabase up to its await, or
\* with a cached handle the find of line 70 issued
ResetInvoke(p) ==
    /\ FreeSlot(p)
    /\ \E method \in Methods :
         IF method = "OPTIONS"
         THEN inv' = [inv EXCEPT ![p] = ResetGated(method, 200, EmptyBody)]
         ELSE IF method # "POST"
         THEN inv' = [inv EXCEPT ![p] = ResetGated(method, 405, ErrorBody(NotAllowed))]
         ELSE inv' = [inv EXCEPT ![p] =
                  ResetRecord(IF CachedHandle("reset") # NULL THEN "find" ELSE "connecting",
                              <<>>, NoResponse)]
    /\ UNCHANGED <<pending, completed, backup, cache, now>>

\* lines 37-48: MongoClient.connect resolved; the handle is cached and the
\* find of line 70 is issued
ResetConnected(p) ==
    /\ inv[p].pc = "connecting"
    /\ inv[p].h = "reset"
    /\ cache' = [cache EXCEPT !["reset"] = p]
    /\ inv' = [inv EXCEPT ![p].pc = "find"]
    /\ UNCHANGED <<pending, completed, backup, now>>

\* the connect or one of the three calls rejects: the catch of lines 90-93
\* answers 500
ResetFailed(p) ==
    /\ inv[p].pc \in {"connecting", "find", "delete", "insert"}
    /\ inv[p].h = "reset"
    /\ inv' = [inv EXCEPT ![p].pc = "done", ![p].deleted = 0, ![p].n = 0,
                          ![p].resp = Response(500, ErrorBody(
                              IF inv[p].pc = "connecting" THEN ConnectError ELSE CallError))]
    /\ UNCHANGED <<pending, completed, backup, cache, now>>

\* the test of line 72 is left out: an empty backup is restored like any other
IsEmptyNever(backups) == FALSE

\* line 72: !backups || backups.length === 0
IsEmpty(backups) == Len(backups) = 0

\* the find of line 70 at the server and the continuation of lines 72-79:
\* without a backup the handler answers 404, else deleteMany is issued
ResetFindBackup(p) ==
    /\ inv[p].pc = "find"
    /\ inv[p].h = "reset"
    /\ inv' = [inv EXCEPT ![p] =
           IF IsEmpty(FindAll(backup))
           THEN ResetRecord("done", FindAll(backup), Response(404, ErrorBody(NoBackup)))
           ELSE ResetRecord("delete", FindAll(backup), NoResponse)]
    /\ UNCHANGED <<pending, completed, backup, cache, now>>

\* the collection is not emptied before the backup is inserted
DeleteNone(docs) == docs

\* deleteMany({})
DeleteMany(docs) == <<>>

\* its result: { deletedCount }
DeletedCount(docs) == Len(docs)

\* deleteMany runs on backup_reviews, the collection read just before
ResetDeleteBackup(p) ==
    /\ inv[p].pc = "delete"
    /\ inv[p].h = "reset"
    /\ backup' = DeleteMany(backup)
    /\ inv' = [inv EXCEPT ![p].pc = "insert"]
    /\ UNCHANGED <<pending, completed, cache, now>>

\* the deleteMany of line 79 at the server; insertMany of line 82 is issued
ResetDeleteMany(p) ==
    /\ inv[p].pc = "delete"
    /\ inv[p].h = "reset"
    /\ pending' = DeleteMany(pending)
    /\ inv' = [inv EXCEPT ![p].pc = "insert", ![p].deleted = DeletedCount(pending)]
    /\ UNCHANGED <<completed, backup, cache, now>>

Oids(docs) == {docs[i]._id : i \in DOMAIN docs}

\* the documents are inserted under fresh _ids, which never collide
AcceptedAll(docs, new) == Len(new)

\* insertMany(new), ordered: the documents are inserted one by one, as they
\* are, up to the first whose _id the collection already holds (the unique
\* index on _id); Accepted is how many get in
Accepted(docs, new) ==
    LET fits == {k \in 0..Len(new) : \A i \in 1..k : new[i]._id \notin Oids(docs)}
    IN  CHOOSE k \in fits : \A j \in fits : j <= k

InsertMany(docs, new) == docs \o SubSeq(new, 1, Accepted(docs, new))

\* the insertMany of line 82 at the server, which stores the documents one
\* at a time (each insert is atomic, the batch is not), and after the last
\* the continuation of lines 84-93: success with the count, or 500 on a
\* duplicate key, which ends the batch
ResetInsertMany(p) ==
    /\ inv[p].pc = "insert"
    /\ inv[p].h = "reset"
    /\ LET next == SubSeq(inv[p].backups, inv[p].n + 1, inv[p].n + 1)
       IN  /\ pending' = InsertMany(pending, next)
           /\ inv' = [inv EXCEPT ![p] =
                  IF Accepted(pending, next) = 0
                  THEN [@ EXCEPT !.pc = "done", !.deleted = 0, !.n = 0,
                                 !.resp = Response(500, ErrorBody(DuplicateKey))]
                  ELSE IF inv[p].n + 1 = Len(inv[p].backups)
                  THEN [@ EXCEPT !.pc = "done", !.deleted = 0, !.n = 0,
                                 !.resp = Response(200, ResetSuccess(Len(inv[p].backups)))]
                  ELSE [@ EXCEPT !.n = inv[p].n + 1]]
    /\ UNCHANGED <<completed, backup, cache, now>>

ResetNext(p) ==
    \/ ResetInvoke(p)
    \/ ResetConnected(p)
    \/ ResetFailed(p)
    \/ ResetFindBackup(p)
    \/ ResetDeleteMany(p)
    \/ ResetInsertMany(p)

(***************************************************************************)
(* Specifications                                                          *)
(***************************************************************************)
FetchAllNext(p) ==
    \/ ReadInvoke(p, "getAll")
    \/ ReadConnected(p, "getAll")
    \/ ReadFailed(p, "getAll")
    \/ FetchAllFind(p)

FetchOneNext(p) ==
    \/ ReadInvoke(p, "getOne")
    \/ ReadConnected(p, "getOne")
    \/ ReadFailed(p, "getOne")
    \/ FetchOneCount(p)
    \/ FetchOneFindOne(p)
    \/ FetchOneRespond(p)

FetchOneLegacyNext(p) ==
    \/ ReadInvoke(p, "getOneLegacy")
    \/ ReadConnected(p, "getOneLegacy")
    \/ ReadFailed(p, "getOneLegacy")
    \/ FetchOneLegacyFind(p)

ListNext(p) ==
    \E h \in ListModules :
        \/ ReadInvoke(p, h)
        \/ ReadConnected(p, h)
        \/ ReadFailed(p, h)
        \/ ListFind(p, h)
        \/ ListMixedRejected(p)

\* the clock advances between two readings
Tick ==
    /\ now < MaxTime
    /\ now' = now + 1
    /\ UNCHANGED <<pending, completed, backup, cache, inv>>

\* Submit and Fetch-All, overlapping
Next ==
    \E p \in Slots :
        SubmitNext(p, PlainBodies \cup {NoBody}) \/ FetchAllNext(p) \/ Return(p)

Spec == Init /\ [][Next]_vars

\* every GET handler and Submit, one invocation after the other
NextRead ==
    \/ SubmitNext(1, PlainBodies)
    \/ FetchAllNext(1)
    \/ FetchOneNext(1)
    \/ FetchOneLegacyNext(1)
    \/ ListNext(1)
    \/ Return(1)

SpecRead == Init /\ [][NextRead]_vars

\* the Fetch handlers and Submit, one invocation after the other, on a
\* pending collection of a few documents or of more than FetchLimit
InitBig == \E n \in {MaxItems, FetchLimit + 1} : Seeded(n)

NextBig ==
    \/ SubmitNext(1, PlainBodies)
    \/ FetchAllNext(1)
    \/ FetchOneNext(1)
    \/ FetchOneLegacyNext(1)
    \/ Return(1)

SpecBig == InitBig /\ [][NextBig]_vars

\* Reset and Submit, one invocation after the other, over every stock of
\* pending and backup
InitReset == \E pend \in PendingStocks, back \in BackupStocks : Stocked(pend, back)

NextReset ==
    \/ ResetNext(1)
    \/ SubmitNext(1, PlainBodies)
    \/ Return(1)

SpecReset == InitReset /\ [][NextReset]_vars

\* Reset and Submit, overlapping, with and without a backup
InitPost == \E back \in {<<>>, SeedDocs(MaxItems)} : Stocked(SeedDocs(MaxItems), back)

NextPost ==
    \E p \in Slots :
        ResetNext(p) \/ SubmitNext(p, PostBodies) \/ Return(p)

SpecPost == InitPost /\ [][NextPost]_vars

\* every Lifecycle Operation, one invocation after the other
NextAll ==
    \/ SubmitNext(1, PostBodies)
    \/ ResetNext(1)
    \/ FetchAllNext(1)
    \/ FetchOneNext(1)
    \/ FetchOneLegacyNext(1)
    \/ ListNext(1)
    \/ Return(1)

SpecAll == InitPost /\ [][NextAll]_vars

\* a verdict on the first item, with and without the reviewed response
ListBodies == StampedBodies \cup {[review_id |-> 1, acceptable |-> TRUE]}

\* List-Completed and Submit, one invocation after the other, as the clock
\* advances, on a completed collection that is empty or holds more than the
\* limit of a variant
InitList == \E n \in {0, ListLimit + 1, ListAllLimit + 1} : Archived(n)

NextList ==
    \/ SubmitNext(1, ListBodies)
    \/ ListNext(1)
    \/ Return(1)
    \/ Tick

SpecList == InitList /\ [][NextList]_vars

\* the summary variants and the detail variant of List-Completed and Submit,
\* overlapping, within one reading of the clock
TieModules == {"listSummary", "listMixed", "listDetail"}

NextTie ==
    \E p \in Slots :
        \/ SubmitNext(p, StampedBodies)
        \/ \E h \in TieModules :
              \/ ReadInvoke(p, h)
              \/ ReadConnected(p, h)
              \/ ReadFailed(p, h)
              \/ ListFind(p, h)
        \/ ListMixedRejected(p)
        \/ Return(p)

SpecTie == Init /\ [][NextTie]_vars

\* Fetch-One, Fetch-All, Submit and Reset, overlapping
NextRace ==
    \E p \in Slots :
        \/ ResetNext(p)
        \/ SubmitNext(p, RaceBodies)
        \/ FetchOneNext(p)
        \/ FetchAllNext(p)
        \/ Return(p)

SpecRace == Init /\ [][NextRace]_vars

\* the two Fetch-One handlers, overlapping, over a pending collection that
\* nothing writes: empty, of one document, seeded, and of limit(100) documents
InitTwin == \E n \in {0, 1, MaxItems, FetchLimit} : Seeded(n)

NextTwin ==
    \E p \in Slots :
        FetchOneNext(p) \/ FetchOneLegacyNext(p) \/ Return(p)

SpecTwin == InitTwin /\ [][NextTwin]_vars

\* the answer of the Fetch-One in slot p shows an item
Shown(p) == inv[p].pc = "done" /\ inv[p].h = "getOne" /\ "review" \in DOMAIN inv[p].resp.body

\* the reviewer reads the answer of Fetch-One and posts a verdict on the item
\* it shows, with the id of the item as review_id: submit-review.js:25-43 on
\* that request
Review(p) ==
    /\ Shown(p)
    /\ LET body == [review_id |-> inv[p].resp.body.review.id, acceptable |-> TRUE]
       IN  IF CachedHandle("submit") # NULL
           THEN SubmitIssue(p, body)
           ELSE inv' = [inv EXCEPT ![p] =
                    SubmitRecord("connecting", body, "none", "none", 0, NoResponse)]
    /\ UNCHANGED <<pending, completed, backup, cache, now>>

\* an answer that shows no item is taken and that is all
Dismiss(p) == ~Shown(p) /\ Return(p)

\* a reviewer's session in slot p: Fetch-One, a verdict on the item shown,
\* Fetch-One again; no connect and no database call fails, and an answer
\* that shows an item is not dropped
Session(p) ==
    \/ ReadInvoke(p, "getOne")
    \/ ReadConnected(p, "getOne")
    \/ FetchOneCount(p)
    \/ FetchOneFindOne(p)
    \/ FetchOneRespond(p)
    \/ Review(p)
    \/ SubmitConnected(p)
    \/ SubmitInsert(p)
    \/ SubmitDelete(p)
    \/ SubmitRespond(p)
    \/ Dismiss(p)

NextSession == \E p \in Slots : Session(p)

\* the server settles every call it was sent and the platform resumes every
\* handler whose await has settled; the reviewer acts on every answer
SpecSession ==
    Init /\ [][NextSession]_vars /\ \A p \in Slots : WF_vars(Session(p))

(***************************************************************************)
(* Properties                                                              *)
(***************************************************************************)
Running(p, h) == inv[p].pc # "idle" /\ inv[p].h = h

\* the request body names the pending item it is a verdict on
CarriesId(body) == "review_id" \in DOMAIN body

Done(p, h) == inv[p].pc = "done" /\ inv[p].h = h

\* the invocation in slot p takes this step
Acts(p) == inv'[p] # inv[p]

\* the invocation in slot p sends its response in this step
Answers(p, h) == Running(p, h) /\ inv[p].pc # "done" /\ inv'[p].pc = "done"

Succeeded(p) == Done(p, "submit") /\ inv[p].resp = Response(200, SuccessBody)

CompletedIds == {completed[i]._id : i \in DOMAIN completed}

\* the documents of completed with review_id x
Verdicts(x) ==
    {i \in DOMAIN completed :
        "review_id" \in DOMAIN completed[i] /\ completed[i].review_id = x}

\* C1: every Submit invocation that answers {success: true} has inserted
\* exactly one document into completed_reviews, and that document is there.
C1_SuccessInsertsExactlyOne ==
    \A p \in Slots :
        Succeeded(p) =>
            /\ Cardinality(inv[p].stored) = 1
            /\ inv[p].stored \subseteq CompletedIds

C1_Witness ==
    \E p \in Slots :
        /\ Succeeded(p)
        /\ Cardinality(inv[p].stored) = 1
        /\ inv[p].del = "ok"

\* C2: a Submit (with a JSON body) whose insert succeeded has answered
\* {success: true}, even when the delete failed: it answers 500 only when the
\* connect or the insert failed.
C2_DeleteFailureNotSurfaced ==
    \A p \in Slots :
        (Done(p, "submit") /\ inv[p].body # NoBody /\ inv[p].ins = "ok") =>
            Succeeded(p)

\* a verdict on x whose insert is still on its way to the server
VerdictInFlight(x) ==
    \E p \in Slots :
        /\ Running(p, "submit")
        /\ inv[p].ins = "sent"
        /\ ReviewId(inv[p].body) = x

\* C3: without Reset, every seeded id is still in pending or has a verdict in
\* completed, in every reachable state (a verdict whose insert is still on
\* its way to the server counts as recorded).
C3_NoItemLostWithoutVerdict ==
    \A x \in ItemIds : x \in Ids(pending) \/ Verdicts(x) # {} \/ VerdictInFlight(x)

\* the documents of completed that the invocation in slot p inserted and
\* that carry its body's fields and a submitted_at
SubmittedDoc(p) ==
    {i \in DOMAIN completed :
        /\ completed[i]._id \in inv[p].stored
        /\ "submitted_at" \in DOMAIN completed[i]
        /\ \A k \in DOMAIN inv[p].body \ {"submitted_at"} :
              k \in DOMAIN completed[i] /\ completed[i][k] = inv[p].body[k]}

C4_State ==
    \A p \in Slots :
        (Succeeded(p) /\ CarriesId(inv[p].body)) =>
            /\ Cardinality(SubmittedDoc(p)) = 1
            /\ Cardinality(inv[p].stored) = 1
            /\ inv[p].body.review_id \notin Ids(pending)

C4_Step ==
    \A p, q \in Slots :
        (/\ Succeeded(p)
         /\ CarriesId(inv[p].body)
         /\ Answers(q, "getAll")
         /\ "reviews" \in DOMAIN inv'[q].resp.body) =>
            inv[p].body.review_id \notin Ids(inv'[q].resp.body.reviews)

NoIdSubmit(p) == Running(p, "submit") /\ ~CarriesId(inv[p].body)

C5_State ==
    \A p \in Slots :
        NoIdSubmit(p) =>
            /\ inv[p].del \in {"none", "skip"}
            /\ Cardinality(inv[p].stored) <= 1
            /\ Succeeded(p) => Cardinality(inv[p].stored) = 1

C5_Step == \A p \in Slots : (NoIdSubmit(p) /\ Acts(p)) => pending' = pending

\* C5: a Submit whose body has no review_id issues no delete, leaves pending
\* unchanged in each of its steps, and inserts one document when it succeeds.
C5_NoIdLeavesPending == []C5_State /\ [][C5_Step]_vars

C5_Witness ==
    \E p \in Slots :
        /\ NoIdSubmit(p)
        /\ Succeeded(p)
        /\ inv[p].stored # {}
        /\ pending = SeedDocs(MaxItems)

\* a Submit with a review_id has answered and none of its calls failed
Unfailed(p) ==
    /\ Done(p, "submit")
    /\ CarriesId(inv[p].body)
    /\ inv[p].ins = "ok"
    /\ inv[p].del \notin {"err"}

\* C6: Submit invocations with the same review_id whose database calls do not
\* fail each insert their own document and each answer {success: true}; a
\* delete that matches nothing is not a failure.
C6_ConcurrentSubmitsAllRecorded ==
    \A p, q \in Slots :
        (Unfailed(p) /\ Unfailed(q) /\ inv[p].body.review_id = inv[q].body.review_id) =>
            /\ Succeeded(p)
            /\ Cardinality(inv[p].stored) = 1
            /\ inv[p].stored \subseteq CompletedIds
            /\ p # q => inv[p].stored \cap inv[q].stored = {}

C6_Witness ==
    \E p, q \in Slots :
        /\ p # q
        /\ Succeeded(p)
        /\ Succeeded(q)
        /\ CarriesId(inv[p].body)
        /\ inv[p].body = inv[q].body
        /\ inv[p].body.review_id \in ItemIds
        /\ inv[p].stored # inv[q].stored
        /\ Cardinality(Verdicts(inv[p].body.review_id)) = 2

\* a step of a GET handler running in slot p
ReadStep(p) ==
    /\ Acts(p)
    /\ \/ inv[p].pc # "idle" /\ inv[p].h \in ReadModules
       \/ inv'[p].pc # "idle" /\ inv'[p].h \in ReadModules

C7_Step == \A p \in Slots : ReadStep(p) => UNCHANGED <<pending, completed, backup>>

\* C7: no step of a Fetch-One, Fetch-All or List-Completed invocation changes
\* pending, completed or backup, whatever it answers.
C7_ReadsAreReadOnly == [][C7_Step]_vars

C7_Witness ==
    \E p \in Slots :
        /\ Done(p, "getOne")
        /\ "review" \in DOMAIN inv[p].resp.body
        /\ inv[p].resp.body.review = pending[1]
        /\ Len(pending) < MaxItems
        /\ completed # <<>>

\* the answer reports a failed connect or a failed database call
EnvironmentFailure(resp) ==
    resp.status = 500 /\ resp.body.error \in EnvironmentErrors

C8_Step ==
    \A p \in Slots :
        (/\ Answers(p, "getAll")
         /\ pending # <<>>
         /\ ~EnvironmentFailure(inv'[p].resp)) =>
            LET b == inv'[p].resp.body
            IN  /\ inv'[p].resp.status = 200
                /\ "reviews" \in DOMAIN b
                /\ Ids(b.reviews) = Ids(pending)
                /\ Len(b.reviews) = Len(pending)
                /\ b.total = Len(pending)

\* C8: a Fetch-All on a non-empty pending returns exactly the documents of
\* pending: the same ids, as many items, and total = |pending|.
C8_FetchAllReturnsPending == [][C8_Step]_vars

C8_Witness ==
    \E p \in Slots :
        /\ Done(p, "getAll")
        /\ "reviews" \in DOMAIN inv[p].resp.body
        /\ inv[p].resp.body.reviews = pending
        /\ inv[p].resp.body.total = Len(pending)
        /\ Len(pending) > FetchLimit
        /\ completed # <<>>

C9_Step ==
    \A p \in Slots : \A h \in {"getOne", "getOneLegacy"} :
        (/\ Answers(p, h)
         /\ pending # <<>>
         /\ ~EnvironmentFailure(inv'[p].resp)) =>
            LET b == inv'[p].resp.body
            IN  /\ inv'[p].resp.status = 200
                /\ "review" \in DOMAIN b
                /\ \E i \in DOMAIN pending : pending[i] = b.review
                /\ b.remaining = Len(pending)
                /\ b.total = Len(pending)

\* C9: a Fetch-One on a non-empty pending returns a document of pending with
\* remaining = total = |pending|, for every size of pending.
C9_FetchOneCountsPending == [][C9_Step]_vars

\* the collection a GET handler reads
Collection(h) == IF h \in ListModules THEN completed ELSE pending

C10_Step ==
    \A p \in Slots : \A h \in ReadModules :
        (/\ Answers(p, h)
         /\ Collection(h) = <<>>
         /\ ~EnvironmentFailure(inv'[p].resp)) =>
            /\ inv'[p].resp.status = 200
            /\ "error" \in DOMAIN inv'[p].resp.body

\* C10: a Fetch-One or Fetch-All on an empty pending and a List-Completed on
\* an empty completed answer 200 with an error field, never 5xx (failures of
\* the connection or of the network apart).
C10_EmptyIsNotAFailure == [][C10_Step]_vars

\* a step of the Reset invocation running in slot p
ResetStep(p) ==
    /\ Acts(p)
    /\ \/ inv[p].pc # "idle" /\ inv[p].h = "reset"
       \/ inv'[p].pc # "idle" /\ inv'[p].h = "reset"

\* each id of docs is carried by one document
EachOnce(docs) == Cardinality(Ids(docs)) = Len(docs)

\* C11: with a backup of N >= 1 documents, a Reset that ran alone and whose
\* connect and calls did not fail has answered {success: true, count: N} and
\* pending holds exactly the N documents of the backup, each id once,
\* whatever it held before.
C11_ResetRestoresBackup ==
    \A p \in Slots :
        (/\ Done(p, "reset")
         /\ inv[p].backups # <<>>
         /\ ~EnvironmentFailure(inv[p].resp)) =>
            /\ inv[p].resp.status = 200
            /\ inv[p].resp.body.success = TRUE
            /\ inv[p].resp.body.count = Len(backup)
            /\ Len(pending) = Len(backup)
            /\ Ids(pending) = Ids(backup)
            /\ EachOnce(pending)
            /\ pending = backup

C11_Witness ==
    \E p \in Slots :
        /\ Done(p, "reset")
        /\ inv[p].resp = Response(200, ResetSuccess(MaxItems))
        /\ pending = SeedDocs(MaxItems)
        /\ completed # <<>>

\* the answers of the method gate
Gated(resp) == resp \in {Response(200, EmptyBody), Response(405, ErrorBody(NotAllowed))}

C12_State ==
    \A p \in Slots :
        (/\ Done(p, "reset")
         /\ backup = <<>>
         /\ ~Gated(inv[p].resp)
         /\ ~EnvironmentFailure(inv[p].resp)) =>
            /\ inv[p].resp.status >= 400
            /\ "error" \in DOMAIN inv[p].resp.body
            /\ inv[p].resp.body.error = NoBackup

C12_Step ==
    \A p \in Slots :
        (ResetStep(p) /\ backup = <<>>) =>
            /\ UNCHANGED <<pending, completed, backup>>
            /\ inv'[p].pc \notin {"delete", "insert"}

\* C12: with an empty backup, a Reset answers the no-backup error, issues
\* neither deleteMany nor insertMany, and none of its steps changes pending,
\* completed or backup.
C12_NoBackupLeavesAll == []C12_State /\ [][C12_Step]_vars

C12_Witness ==
    \E p \in Slots :
        /\ Done(p, "reset")
        /\ "error" \in DOMAIN inv[p].resp.body
        /\ inv[p].resp.body.error = NoBackup
        /\ backup = <<>>
        /\ pending # <<>>
        /\ completed # <<>>

\* the invocation in slot p was a POST of Submit or Reset and has answered
PostDone(p) ==
    /\ Done(p, "submit") \/ Done(p, "reset")
    /\ ~Gated(inv[p].resp)

\* C13: every POST of Submit or Reset ends in {success: true} or in an
\* {error} body with status 500, the missing-backup failure of Reset included.
C13_PostFailuresAre500 ==
    \A p \in Slots :
        PostDone(p) =>
            \/ /\ inv[p].resp.status = 200
               /\ "success" \in DOMAIN inv[p].resp.body
               /\ inv[p].resp.body.success = TRUE
            \/ /\ inv[p].resp.status = 500
               /\ "error" \in DOMAIN inv[p].resp.body

PostModules == {"submit", "reset"}

\* the invocation in slot p serves a request of Submit or Reset whose method
\* is not POST
NonPost(r) == r.pc # "idle" /\ r.h \in PostModules /\ r.method # "POST"

C14_State ==
    \A p \in Slots :
        NonPost(inv[p]) =>
            /\ inv[p].pc = "done"
            /\ inv[p].method = "OPTIONS" => inv[p].resp.status = 200
            /\ inv[p].method # "OPTIONS" => inv[p].resp.status = 405
            /\ inv[p].h = "submit" => inv[p].ins = "none" /\ inv[p].del = "none"
            /\ inv[p].h = "reset" => inv[p].backups = <<>>

C14_Step ==
    \A p \in Slots :
        (Acts(p) /\ (NonPost(inv[p]) \/ NonPost(inv'[p]))) =>
            UNCHANGED <<pending, completed, backup, cache>>

\* C14: Submit and Reset answer OPTIONS with 200 and every method other than
\* POST and OPTIONS with 405, at once: such an invocation never awaits the
\* connection, issues no database call, and leaves the cache and the three
\* collections as they are.
C14_GateTouchesNothing == []C14_State /\ [][C14_Step]_vars

C14_Witness ==
    \E p, q \in Slots :
        /\ Done(p, "submit")
        /\ inv[p].method = "GET"
        /\ inv[p].resp = Response(405, ErrorBody(NotAllowed))
        /\ Done(q, "reset")
        /\ inv[q].method = "OPTIONS"
        /\ inv[q].resp = Response(200, EmptyBody)
        /\ cache["reset"] # NULL

\* docs is a prefix of later: later holds every document of docs, as it
\* was and where it was
Extends(later, docs) ==
    /\ Len(later) >= Len(docs)
    /\ SubSeq(later, 1, Len(docs)) = docs

\* C15: completed is append-only: every step of every Lifecycle Operation
\* leaves each document of completed as it was, so completed at any later
\* time holds all it held before.
C15_CompletedAppendOnly == [][Extends(completed', completed)]_vars

C15_Witness ==
    \E p \in Slots :
        /\ Done(p, "reset")
        /\ inv[p].resp.status = 200
        /\ inv[p].method = "POST"
        /\ Len(completed) = MaxCompleted
        /\ Verdicts(1) = DOMAIN completed

\* C16: backup is immutable: no step of any Lifecycle Operation changes
\* backup_reviews; Reset only reads it.
C16_BackupImmutable == [][backup' = backup]_vars

C16_Witness ==
    \E p \in Slots :
        /\ Done(p, "reset")
        /\ inv[p].backups = backup
        /\ backup = SeedDocs(MaxItems)
        /\ inv[p].resp = Response(200, ResetSuccess(MaxItems))

\* the step puts a document into pending
InsertsPending ==
    \/ Len(pending') > Len(pending)
    \/ \E i \in DOMAIN pending' : \A j \in DOMAIN pending : pending'[i] # pending[j]

C17_Step ==
    InsertsPending =>
        \E p \in Slots :
            /\ Acts(p)
            /\ inv[p].pc = "insert"
            /\ inv[p].h = "reset"
            /\ inv[p].method = "POST"

\* C17: a document enters pending only in the insertMany step of a POST
\* invocation of Reset: no step of a Fetch, Submit or List-Completed
\* invocation, and no Reset request of another method, inserts into pending.
C17_OnlyResetReseeds == [][C17_Step]_vars

C17_Witness ==
    \E p \in Slots :
        /\ Done(p, "reset")
        /\ inv[p].method = "POST"
        /\ inv[p].resp.status = 200
        /\ pending = backup
        /\ Verdicts(1) # {}
        /\ cache["getAll"] # NULL

\* the invocation in slot p starts in this step, past the method gate
Starts(p, m) ==
    /\ inv[p].pc = "idle"
    /\ inv'[p].pc # "idle"
    /\ inv'[p].h = m
    /\ inv'[p].h \in PostModules => inv'[p].method = "POST"

C18_Step ==
    \A m \in Modules :
        cache[m] # NULL =>
            /\ cache'[m] = cache[m]
            /\ \A p \in Slots : Starts(p, m) => inv'[p].pc # "connecting"

\* C18: once a connect of a module has succeeded, the cache of that module
\* keeps the handle it was given, so that every later call of
\* connectToDatabase returns that same handle, and no invocation that starts
\* afterwards opens a connection.
C18_SameHandleEveryCall == [][C18_Step]_vars

\* the connect of the invocation in slot p rejects in this step
ConnectFails(p) ==
    /\ inv[p].pc = "connecting"
    /\ Acts(p)
    /\ inv'[p].resp = Response(500, ErrorBody(ConnectError))

\* the invocation has issued no database call
NoCall(r) ==
    /\ r.h = "submit" => r.ins = "none" /\ r.del = "none"
    /\ r.h = "reset" => r.backups = <<>>

C19_Step ==
    \A p \in Slots :
        /\ ConnectFails(p) =>
              /\ inv'[p].pc = "done"
              /\ NoCall(inv'[p])
              /\ UNCHANGED <<pending, completed, backup, cache>>
        /\ \A m \in PostModules :
              (Starts(p, m) /\ cache[m] = NULL) => inv'[p].pc = "connecting"

C19_State ==
    \A p \in Slots :
        (inv[p].pc = "done" /\ inv[p].resp = Response(500, ErrorBody(ConnectError))) =>
            NoCall(inv[p])

\* C19: an invocation whose connect rejects answers 500 in that very step
\* (one attempt, no retry), has issued no database call, and leaves the
\* collections and the cache as they were: a cache that was empty stays
\* empty, and an invocation that finds it empty makes its own attempt.
C19_FailedConnectNotCached == []C19_State /\ [][C19_Step]_vars

C19_Witness ==
    \E p, q \in Slots :
        /\ Done(p, "submit")
        /\ inv[p].resp = Response(500, ErrorBody(ConnectError))
        /\ cache["submit"] = NULL
        /\ inv[q].pc = "connecting"
        /\ inv[q].h = "submit"
        /\ pending = SeedDocs(MaxItems)

\* database calls of the invocation that have not settled
InFlight(r) ==
    IF r.h = "submit"
    THEN (IF r.ins = "sent" THEN 1 ELSE 0) + (IF r.del = "sent" THEN 1 ELSE 0)
    ELSE 0

\* the steps the invocation can still take, at most
Rank(r) ==
    IF r.pc = "idle" THEN 0
    ELSE InFlight(r) +
         (CASE r.pc = "connecting" -> MaxItems + 4
            [] r.pc = "find" -> MaxItems + 3
            [] r.pc = "delete" -> MaxItems + 2
            [] r.pc = "insert" -> 1 + Len(r.backups) - r.n
            [] r.pc = "await" -> 1
            [] OTHER -> 0)

\* a response as the handlers send it: a status and a JSON body (none for
\* the preflight)
WellFormed(resp) ==
    /\ resp.status \in {200, 404, 405, 500}
    /\ \/ resp.body = EmptyBody
       \/ "success" \in DOMAIN resp.body
       \/ "error" \in DOMAIN resp.body

C20_State ==
    \A p \in Slots :
        (inv[p].pc # "idle" /\ inv[p].h \in PostModules) =>
            /\ inv[p].pc = "done" <=> inv[p].resp # NoResponse
            /\ inv[p].pc = "done" => WellFormed(inv[p].resp)
            /\ inv[p].pc # "done" => ENABLED (ResetNext(p) \/ SubmitNext(p, PostBodies))
            /\ (inv[p].h = "submit" /\ Rejected(inv[p].ins)) => Awaited(inv[p])

C20_Step ==
    \A p \in Slots :
        (Acts(p) /\ inv[p].pc # "idle" /\ inv'[p].pc # "idle") =>
            /\ Rank(inv'[p]) < Rank(inv[p])
            /\ inv[p].pc = "done" => inv'[p].resp = inv[p].resp

\* C20: every Submit and Reset invocation sends one response and ends: until
\* it has answered it can take a step whatever the other invocations do,
\* each step brings it closer to its end, the response once sent is not sent
\* again, and every rejected database call is one the handler awaits, so
\* that its failure reaches the catch and nothing escapes the handler.
C20_OneResponseNothingEscapes == []C20_State /\ [][C20_Step]_vars

\* the List-Completed variants whose query the server accepts, and the limit
\* of each
ListingModules == {"listSummary", "listAll", "listDetail"}
Bound(h) == IF h = "listAll" THEN ListAllLimit ELSE ListLimit

\* r is document d as variant h returns it
Returned(h, r, d) ==
    /\ r._id = d._id
    /\ r = (IF h = "listSummary" THEN Project(d, SummaryFields) ELSE d)

\* reviews holds Min(|docs|, bound) distinct documents of docs, latest first,
\* and no document left out is later than one that is returned
LatestFirst(h, reviews, docs) ==
    /\ Len(reviews) = Min(Len(docs), Bound(h))
    /\ \A k \in 1..(Len(reviews) - 1) :
          reviews[k].submitted_at >= reviews[k + 1].submitted_at
    /\ Cardinality({reviews[k]._id : k \in DOMAIN reviews}) = Len(reviews)
    /\ \A k \in DOMAIN reviews : \E i \in DOMAIN docs : Returned(h, reviews[k], docs[i])
    /\ \A i \in DOMAIN docs :
          (\A k \in DOMAIN reviews : reviews[k]._id # docs[i]._id) =>
              docs[i].submitted_at <= reviews[Len(reviews)].submitted_at

C21_Step ==
    \A p \in Slots : \A h \in ListingModules :
        (/\ Answers(p, h)
         /\ completed # <<>>
         /\ ~EnvironmentFailure(inv'[p].resp)) =>
            /\ inv'[p].resp.status = 200
            /\ "reviews" \in DOMAIN inv'[p].resp.body
            /\ LatestFirst(h, inv'[p].resp.body.reviews, completed)

Listed(p, h) == Done(p, h) /\ "reviews" \in DOMAIN inv[p].resp.body

Reviews(p) == inv[p].resp.body.reviews

\* C22: two List-Completed calls of one variant that return the same
\* documents (hence ran on the same completed) return them in the same
\* order, documents with equal submitted_at included.
C22_SameOrderEveryCall ==
    \A p, q \in Slots : \A h \in ListingModules :
        (Listed(p, h) /\ Listed(q, h) /\ Oids(Reviews(p)) = Oids(Reviews(q))) =>
            Reviews(p) = Reviews(q)

SummaryModules == {"listSummary", "listMixed"}

C23_Step ==
    \A p \in Slots :
        /\ \A h \in SummaryModules :
              (Answers(p, h) /\ completed # <<>> /\ ~EnvironmentFailure(inv'[p].resp)) =>
                  /\ inv'[p].resp.status = 200
                  /\ "reviews" \in DOMAIN inv'[p].resp.body
                  /\ \A k \in DOMAIN inv'[p].resp.body.reviews :
                        "response" \notin DOMAIN inv'[p].resp.body.reviews[k]
        /\ (Answers(p, "listDetail") /\ completed # <<>>
                /\ ~EnvironmentFailure(inv'[p].resp)) =>
              /\ inv'[p].resp.status = 200
              /\ "reviews" \in DOMAIN inv'[p].resp.body
              /\ \A k \in DOMAIN inv'[p].resp.body.reviews :
                    \E i \in DOMAIN completed :
                        inv'[p].resp.body.reviews[k] = completed[i]

C23_State ==
    \A p, q \in Slots : \A h \in SummaryModules :
        (Listed(p, h) /\ Listed(q, "listDetail")
            /\ Oids(Reviews(p)) = Oids(Reviews(q))) =>
            /\ Len(Reviews(p)) = Len(Reviews(q))
            /\ \A k \in DOMAIN Reviews(p) :
                  /\ Reviews(p)[k]._id = Reviews(q)[k]._id
                  /\ \A f \in DOMAIN Reviews(p)[k] :
                        f \in DOMAIN Reviews(q)[k] /\ Reviews(p)[k][f] = Reviews(q)[k][f]

\* C23: each summary variant of List-Completed returns every document
\* without its response field and the detail variant returns every document
\* whole; a summary and a detail call that return the same documents return
\* them in the same order, each summary document being the detail document
\* less the fields the projection leaves out.
C23_SummaryIsDetailProjected == []C23_State /\ [][C23_Step]_vars

\* C24: no two documents of pending share an id, in every state that
\* overlapping Fetch, Submit and Reset invocations can reach from a pending
\* and a backup with unique ids.
C24_PendingIdsUnique == EachOnce(pending)

C24_Witness ==
    \E p, q \in Slots :
        /\ Done(p, "reset")
        /\ inv[p].resp = Response(500, ErrorBody(DuplicateKey))
        /\ Running(q, "reset")
        /\ inv[q].pc = "insert"
        /\ pending # <<>>
        /\ EachOnce(pending)

\* C25 as claimed: at most one document of completed carries review_id X,
\* for each seeded X, in every execution without Reset.
C25_AtMostOneVerdict == \A x \in ItemIds : Cardinality(Verdicts(x)) <= 1

\* the step is one of a Submit on x
SubmitStepOn(p, x) ==
    /\ Running(p, "submit")
    /\ Acts(p)
    /\ CarriesId(inv[p].body)
    /\ inv[p].body.review_id = x

C25_Step ==
    \A x \in ItemIds :
        /\ x \notin Ids(pending) => x \notin Ids(pending')
        /\ (x \in Ids(pending) /\ x \notin Ids(pending')) =>
              /\ \E p \in Slots : SubmitStepOn(p, x)
              /\ Len(pending') = Len(pending) - 1
        /\ Cardinality(Verdicts(x)') <= Cardinality(Verdicts(x)) + 1
        /\ Cardinality(Verdicts(x)') > Cardinality(Verdicts(x)) =>
              \E p \in Slots :
                  SubmitStepOn(p, x) /\ inv[p].ins = "sent" /\ inv'[p].ins = "ok"

\* C25, amended: without Reset, an item leaves pending at most once (once
\* gone it does not return) and only through a Submit on its id, and a
\* verdict on X enters completed only through the insert of a Submit on X,
\* one per Submit: several Submits on X record several verdicts.
C25_RemovedOnceRecordedPerSubmit == [][C25_Step]_vars

C25_Witness ==
    \E p \in Slots :
        /\ Succeeded(p)
        /\ CarriesId(inv[p].body)
        /\ inv[p].body.review_id = 1
        /\ Cardinality(Verdicts(1)) = 2
        /\ Ids(pending) = ItemIds \ {1}

\* what a successful Submit on x leaves: a verdict on x, and x not in pending
Submitted(x) == x \notin Ids(pending) /\ Verdicts(x) # {}

C26_State ==
    \A p \in Slots :
        (Succeeded(p) /\ CarriesId(inv[p].body) /\ inv[p].body.review_id \in ItemIds) =>
            Submitted(inv[p].body.review_id)

C26_Step ==
    \A x \in ItemIds :
        Submitted(x) =>
            /\ Submitted(x)'
            /\ \A p \in Slots : SubmitStepOn(p, x) => pending' = pending

\* C26: once a Submit on X has succeeded, X has a verdict and is out of
\* pending, this stays so without Reset, and no step of a further Submit on
\* X changes pending, whether that Submit succeeds or not.
C26_ResubmitLeavesPending == []C26_State /\ [][C26_Step]_vars

C26_Witness ==
    \E p, q \in Slots :
        /\ p # q
        /\ Succeeded(p)
        /\ Succeeded(q)
        /\ inv[p].body = [review_id |-> MaxItems, acceptable |-> TRUE]
        /\ inv[q].body = inv[p].body
        /\ inv[p].del = "ok"
        /\ inv[q].del = "ok"
        /\ pending = SeedDocs(MaxItems - 1)

\* the fields of an answer that carry items or counts; a truncation signal
\* is any further field
ItemFields == {"reviews", "review", "total", "remaining"}
SignalsTruncation(b) == DOMAIN b \ ItemFields # {}

C27_Step ==
    \A p \in Slots :
        /\ (Answers(p, "getAll") /\ Len(pending) > FetchLimit
                /\ ~EnvironmentFailure(inv'[p].resp)) =>
              /\ "reviews" \in DOMAIN inv'[p].resp.body
              /\ Len(inv'[p].resp.body.reviews) <= FetchLimit
              /\ SignalsTruncation(inv'[p].resp.body)
        /\ (Answers(p, "getOneLegacy") /\ Len(pending) > FetchLimit
                /\ ~EnvironmentFailure(inv'[p].resp)) =>
              /\ inv'[p].resp.body.total <= FetchLimit
              /\ SignalsTruncation(inv'[p].resp.body)

\* C27: on a pending of more documents than the bound of 100, Fetch-All
\* returns at most 100 and adds a truncation signal to its answer, and the
\* handler that reads through limit(100) signals it too.
C27_TruncationSignalled == [][C27_Step]_vars

\* the invocations of module m that are waiting for their own connect
Connecting(m) == {p \in Slots : inv[p].pc = "connecting" /\ inv[p].h = m}

C28_State == \A m \in Modules : Cardinality(Connecting(m)) <= 1

C28_Step == \A m \in Modules : cache[m] # NULL => cache'[m] = cache[m]

\* C28: among the overlapping invocations of a module at most one opens a
\* connection at a time, and the handle that the first resolved connect
\* cached is never replaced by another.
C28_OneConnectionPerContext == []C28_State /\ [][C28_Step]_vars

C29_Step ==
    \A p \in Slots :
        (Answers(p, "getOne") /\ "review" \in DOMAIN inv'[p].resp.body) =>
            /\ inv'[p].resp.body.remaining >= 1
            /\ inv'[p].resp.body.remaining <= MaxItems

\* C29: a Fetch-One that returns an item reports a remaining count of at
\* least 1 and of at most the largest size of pending (which, from the
\* seeded collections, never exceeds the MaxItems documents of the backup),
\* under every interleaving with Submit and Reset.
C29_ItemImpliesCount == [][C29_Step]_vars

\* a Reset that emptied a non-empty pending (line 79) and has not yet
\* finished inserting its non-empty backup (line 82)
Replacing(q) ==
    /\ Running(q, "reset")
    /\ inv[q].pc = "insert"
    /\ inv[q].deleted >= 1
    /\ Len(inv[q].backups) >= 1

C30_Step ==
    \A p \in Slots :
        ((Answers(p, "getAll") \/ Answers(p, "getOne"))
            /\ \E q \in Slots \ {p} : Replacing(q)) =>
                inv'[p].resp.body # [error |-> "No reviews available"]

\* C30: a Fetch-One or Fetch-All that overlaps a Reset whose pending was
\* non-empty before and is non-empty after never answers
\* 'No reviews available'.
C30_ResetAtomicToReaders == [][C30_Step]_vars

\* the step is the answer of a Reset and the answer is an error
ResetFails(p) ==
    /\ Answers(p, "reset")
    /\ inv'[p].resp.status >= 400

C31_Step ==
    \A p \in Slots :
        ResetFails(p) =>
            /\ pending' = pending
            /\ inv[p].pc = "insert" => Len(pending') = inv[p].deleted

\* C31: a Reset, running alone, that answers with an error has left pending
\* as it found it: the failing step does not change pending and, when
\* deleteMany had already run, pending holds as many documents again as were
\* deleted.
C31_FailedResetLeavesPending == [][C31_Step]_vars

\* every slot holds a Reset that got past the method gate and has answered,
\* none of them with a failed connect or call
AllResetsDone ==
    \A p \in Slots :
        /\ Done(p, "reset")
        /\ inv[p].method = "POST"
        /\ ~EnvironmentFailure(inv[p].resp)

\* C32: once the Resets that overlapped on a non-empty backup have all
\* answered, pending holds the documents of the backup, each once, and each
\* of the Resets has answered {success: true}.
C32_OverlappingResetsAllSucceed ==
    (AllResetsDone /\ backup # <<>>) =>
        /\ Ids(pending) = Ids(backup)
        /\ EachOnce(pending)
        /\ \A p \in Slots :
               /\ inv[p].resp.status = 200
               /\ inv[p].resp.body = ResetSuccess(Len(backup))

NoItems == Response(200, [error |-> "No reviews available"])

Drained ==
    /\ pending = <<>>
    /\ \A p \in Slots : Done(p, "getOne") => inv[p].resp = NoItems

FromBackup == \A i \in DOMAIN pending : \E j \in DOMAIN backup : pending[i] = backup[j]

C34_Step ==
    (\A p \in Slots : ~ResetStep(p)) => Ids(pending') \subseteq Ids(pending)

\* C34: from a seeded state (pending equal to the backup), every document of
\* pending is at all times a document of the backup, and no step other than
\* a Reset's adds an id to pending.
C34_PendingWithinBackup == []FromBackup /\ [][C34_Step]_vars

C34_Witness ==
    /\ \E p \in Slots : Done(p, "reset") /\ inv[p].resp = Response(200, ResetSuccess(MaxItems))
    /\ \E p \in Slots : Done(p, "submit") /\ inv[p].resp = Response(200, SuccessBody)
    /\ pending # <<>>
    /\ Len(pending) < Len(backup)

\* docs without its k-th document
Without(docs, k) == SubSeq(docs, 1, k - 1) \o SubSeq(docs, k + 1, Len(docs))

\* a step of the Submit in slot p leaves pending alone or, as its one
\* deleteOne settles, takes out one document whose id is the review_id; a
\* deleteOne that has settled is not issued again by the same invocation
C35_Step ==
    \A p \in Slots :
        (Running(p, "submit") /\ Acts(p)) =>
            /\ \/ pending' = pending
               \/ /\ CarriesId(inv[p].body)
                  /\ inv[p].del = "sent"
                  /\ inv'[p].del # "sent"
                  /\ \E k \in DOMAIN pending :
                        /\ pending[k].id = inv[p].body.review_id
                        /\ pending' = Without(pending, k)
            /\ (inv[p].del \notin {"none", "sent"} /\ inv'[p].pc # "idle") =>
                  inv'[p].del = inv[p].del

\* a Submit whose review_id is the id of no pending document, and whose
\* connect and calls did not fail, has stored its verdict and answered
\* {success: true}
C35_State ==
    \A p \in Slots :
        (/\ Done(p, "submit")
         /\ CarriesId(inv[p].body)
         /\ inv[p].body.review_id = UnknownId
         /\ ~EnvironmentFailure(inv[p].resp)) =>
            /\ inv[p].resp = Response(200, SuccessBody)
            /\ SubmittedDoc(p) # {}

\* C35: a Submit removes at most one document from pending, one whose id is
\* the submitted review_id, and leaves the others as they are; when no
\* pending document has that id, pending is unchanged, the verdict is stored
\* and the answer is {success: true}.
C35_SubmitRemovesOnlyItsItem == []C35_State /\ [][C35_Step]_vars

C35_Witness ==
    /\ pending = <<PendingDoc(MaxItems)>>
    /\ \E p \in Slots :
          /\ Done(p, "submit")
          /\ CarriesId(inv[p].body)
          /\ inv[p].body.review_id = UnknownId
          /\ inv[p].resp = Response(200, SuccessBody)
          /\ SubmittedDoc(p) # {}

\* the step is an insert of the Submit in slot p
Stores(p) ==
    /\ Running(p, "submit")
    /\ Acts(p)
    /\ Len(completed') = Len(completed) + 1

C36_Step ==
    \A p \in Slots :
        Stores(p) =>
            LET d == completed'[Len(completed')]
                body == inv[p].body
            IN  /\ DOMAIN d = DOMAIN body \cup {"submitted_at", "_id"}
                /\ d.submitted_at \in 1..now
                /\ d.submitted_at # ClientStamp
                /\ \A k \in DOMAIN body \ {"submitted_at"} : d[k] = body[k]

\* C36: the document a Submit stores carries a submitted_at read from the
\* server's clock, never the submitted_at of the request body, and every
\* other field of the body as it was sent.
C36_ServerStamps == [][C36_Step]_vars

C36_Witness ==
    \E p \in Slots :
        /\ Done(p, "submit")
        /\ "submitted_at" \in DOMAIN inv[p].body
        /\ inv[p].body.submitted_at = ClientStamp
        /\ \E i \in DOMAIN completed :
              /\ completed[i]._id \in inv[p].stored
              /\ completed[i].response = "html"
              /\ completed[i].submitted_at = MaxTime

\* C37: on a pending collection of at most 100 documents that nothing
\* writes, the Fetch-One of get-reviews.js and the Fetch-One of part_001,
\* when neither connect nor call failed, give the same answer: the same item,
\* remaining and total, and the no-items signal exactly when pending is empty.
C37_FetchOneVariantsAgree ==
    \A p, q \in Slots :
        (/\ Done(p, "getOne")
         /\ Done(q, "getOneLegacy")
         /\ ~EnvironmentFailure(inv[p].resp)
         /\ ~EnvironmentFailure(inv[q].resp)
         /\ Len(pending) <= FetchLimit) =>
            /\ inv[p].resp = inv[q].resp
            /\ (inv[p].resp = NoItems) <=> (pending = <<>>)
            /\ (inv[q].resp = NoItems) <=> (pending = <<>>)

C37_Witness ==
    \E p, q \in Slots :
        /\ Done(p, "getOne")
        /\ Done(q, "getOneLegacy")
        /\ inv[p].resp = inv[q].resp
        /\ "review" \in DOMAIN inv[p].resp.body
        /\ inv[p].resp.body.remaining = FetchLimit

====
